---- MODULE Spec2Model ----
(***************************************************************************)
(* A model of studyflow's spaced-repetition core,                          *)
(* app/services/advanced_spaced_repetition.py (class                       *)
(* AdvancedSpacedRepetition), and of the one shared instance sr_service    *)
(* that app/api/endpoints/spaced_repetition.py calls.                      *)
(*                                                                         *)
(* Numbers.  The Python floats are modelled as exact rationals on fixed    *)
(* grids:                                                                  *)
(*   ease factors      in units of 1/300  (1.3 = 390, 2.5 = 750, 3.0 = 900)*)
(*   difficulty, trend in units of 1/100                                   *)
(*   confidence        in units of 1/1000                                  *)
(*   retention         in units of 1e-9 (as returned, rounded: 1/1000)     *)
(*   wall-clock time   in whole hours since a Monday 00:00                 *)
(* 1/300 is the coarsest grid that holds both the hundredths of the SM-2   *)
(* update and the sixtieths of the time-of-day penalty (hour_diff/12*0.2). *)
(***************************************************************************)
EXTENDS Integers, Sequences, FiniteSets, TLC

VARIABLES
    sr_service,   \* the shared AdvancedSpacedRepetition instance (its three fields)
    clock,        \* wall-clock time, hours since a Monday 00:00
    history,      \* the caller's DataFrame handed to get_optimal_review_time
    call,         \* the call that returned last: [op, args, result]
    prev          \* what the caller keeps from before that call: the call it
                  \* repeats, or its log of the card it grades again and again

vars == <<sr_service, clock, history, call, prev>>

(***************************************************************************)
(* Bounds of the model.                                                    *)
(***************************************************************************)
MaxClock == 23          \* clock ranges over 0..MaxClock
MaxReps == 3            \* largest prior repetitions passed to calculate_next_interval
MaxInterval == 21       \* largest interval passed to _apply_fatigue_adjustment alone
MaxSessions == 7        \* largest session_count passed to _apply_fatigue_adjustment alone
MaxConfReps == 7        \* largest repetitions passed to _calculate_confidence alone
MaxDays == 10           \* largest days_ahead passed to predict_retention
MaxRows == 4            \* most records in a history
MaxChainReps == 3       \* a card is graded on while its repetitions are at most this
MaxThreads == 2         \* worker threads calling sr_service at once

(***************************************************************************)
(* Scales.                                                                 *)
(***************************************************************************)
Ease == 3 * 100         \* ease units per 1.0
Hundredth == Ease \div 100   \* ease units per 0.01
Milli == 10 * 100       \* confidence units per 1.0

(***************************************************************************)
(* Python built-ins.                                                       *)
(***************************************************************************)
Max(a, b) == IF a >= b THEN a ELSE b
Min(a, b) == IF a <= b THEN a ELSE b
Abs(a) == IF a >= 0 THEN a ELSE -a

\* faulty variant: an exact half is rounded upward
Round_half_up(n, d) == (2 * n + d) \div (2 * d)

\* round(n / d) for d > 0: Python 3 rounds an exact half to the even neighbour.
Round(n, d) ==
    LET q == n \div d
        r == n % d
    IN  IF 2 * r < d THEN q
        ELSE IF 2 * r > d THEN q + 1
        ELSE IF q % 2 = 0 THEN q ELSE q + 1

\* Optional[Dict]: None is <<>>, a dict d is <<d>>; a dict is a function
\* from the keys it holds.
None == <<>>
Some(d) == <<d>>
Has(d, k) == k \in DOMAIN d
\* Python truthiness of an Optional[Dict]: None and {} are both false.
Truthy(data) == data # None /\ DOMAIN data[1] # {}

(***************************************************************************)
(* AdvancedSpacedRepetition.__init__                                       *)
(***************************************************************************)
AdvancedSpacedRepetition ==
    [base_ease_factor |-> 750, min_ease_factor |-> 390, max_ease_factor |-> 900]

(***************************************************************************)
(* _apply_personalization(self, ease_factor, performance_data); now_hour   *)
(* is what datetime.now().hour returns when the method reads it.           *)
(***************************************************************************)
\* faulty variant: a missing best_performance_hour defaults to 10 instead of
\* contributing nothing
time_adjustment_defaulting(performance_data, now_hour) ==
    LET best_hour == IF Has(performance_data, "best_performance_hour")
                     THEN performance_data["best_performance_hour"] ELSE 10
        d == Abs(now_hour - best_hour)
        hour_diff == IF d > 12 THEN 24 - d ELSE d
    IN  -(5 * hour_diff)

\* faulty variant: the distance is not wrapped round the clock
time_adjustment_unwrapped(performance_data, now_hour) ==
    IF Has(performance_data, "best_performance_hour")
    THEN -(5 * Abs(now_hour - performance_data["best_performance_hour"]))
    ELSE 0

time_adjustment(performance_data, now_hour) ==
    IF Has(performance_data, "best_performance_hour")
    THEN LET best_hour == performance_data["best_performance_hour"]
             d == Abs(now_hour - best_hour)
             hour_diff == IF d > 12 THEN 24 - d ELSE d
         IN  \* -(hour_diff / 12) * 0.2 = -hour_diff / 60 = -5 * hour_diff / 300
             -(5 * hour_diff)
    ELSE 0

difficulty_adjustment(performance_data) ==
    IF Has(performance_data, "subject_difficulty_avg")
    THEN LET avg_difficulty == performance_data["subject_difficulty_avg"]
         IN  IF avg_difficulty > 350 THEN -(10 * Hundredth)
             ELSE IF avg_difficulty < 250 THEN 10 * Hundredth
             ELSE 0
    ELSE 0

speed_adjustment(performance_data) ==
    IF Has(performance_data, "avg_quality_improvement")
    THEN LET improvement == performance_data["avg_quality_improvement"]
         IN  IF improvement > 50 THEN 15 * Hundredth
             ELSE IF improvement < -20 THEN -(15 * Hundredth)
             ELSE 0
    ELSE 0

\* faulty variant: only the upper bound is enforced
clamp_ease_upper_only(self, e) ==
    Min(self.max_ease_factor, e)

clamp_ease(self, e) ==
    Max(self.min_ease_factor, Min(self.max_ease_factor, e))

\* faulty variant: the adjusted ease is returned without the final clamp
apply_personalization_unclamped(self, ease_factor, performance_data, now_hour) ==
    ease_factor + time_adjustment(performance_data, now_hour)
                + difficulty_adjustment(performance_data)
                + speed_adjustment(performance_data)

\* faulty variant: the ease is clamped after every term
apply_personalization_clamping_each(self, ease_factor, performance_data, now_hour) ==
    LET timed == clamp_ease(self, ease_factor
                                  + time_adjustment(performance_data, now_hour))
        weighed == clamp_ease(self, timed + difficulty_adjustment(performance_data))
    IN  clamp_ease(self, weighed + speed_adjustment(performance_data))

apply_personalization(self, ease_factor, performance_data, now_hour) ==
    LET total_adjustment == time_adjustment(performance_data, now_hour)
                            + difficulty_adjustment(performance_data)
                            + speed_adjustment(performance_data)
        adjusted_ease == ease_factor + total_adjustment
    IN  clamp_ease(self, adjusted_ease)

(***************************************************************************)
(* _apply_fatigue_adjustment(self, interval, session_count)                *)
(***************************************************************************)
\* faulty variant: the strongest multiplier is 0.7
fatigue_factor_stronger(session_count) ==
    IF session_count > 5 THEN 7
    ELSE IF session_count > 3 THEN 9
    ELSE 10

\* faulty variant: the thresholds are inclusive, >= 5 and >= 3
fatigue_factor_early(session_count) ==
    IF session_count >= 5 THEN 8
    ELSE IF session_count >= 3 THEN 9
    ELSE 10

fatigue_factor(session_count) ==    \* in tenths
    IF session_count > 5 THEN 8
    ELSE IF session_count > 3 THEN 9
    ELSE 10

\* faulty variant: int() of the product instead of max(1, round())
apply_fatigue_adjustment_truncating(interval, session_count) ==
    (interval * fatigue_factor(session_count)) \div 10

apply_fatigue_adjustment(interval, session_count) ==
    Max(1, Round(interval * fatigue_factor(session_count), 10))

(***************************************************************************)
(* _calculate_confidence(self, quality, repetitions), in thousandths:      *)
(* quality / 5.0 * 0.7 = 0.14 * quality, repetitions * 0.05.               *)
(***************************************************************************)
\* faulty variant: the repetition bonus is not capped at 0.3
calculate_confidence_uncapped_bonus(quality, repetitions) ==
    Min(Milli, 140 * quality + repetitions * 50)

calculate_confidence(quality, repetitions) ==
    LET base_confidence_x07 == 140 * quality
        repetition_bonus == Min(300, repetitions * 50)
    IN  Min(Milli, base_confidence_x07 + repetition_bonus)

(***************************************************************************)
(* calculate_next_interval(self, quality, repetitions, ease_factor,        *)
(* interval, user_performance_data).  The method reads the wall clock      *)
(* twice: now_hour in _apply_personalization, now_built when it builds     *)
(* the result.  It validates nothing and raises nothing.                   *)
(*                                                                         *)
(* Floats.  round(interval * new_ease_factor) is taken of a float product. *)
(* Where the exact product is a half, the float product is that half only  *)
(* if the float ease is exact; an ease that went through an inexact float  *)
(* addition lies an ulp beside its decimal value, and round() then reaches *)
(* either neighbour (10 * 1.4500000000000002 rounds to 15, 25 *            *)
(* 2.0599999999999996 to 51).  The model keeps both outcomes: lean, 0 or   *)
(* 1, is added to the floor in that case.  The float ease is exact when    *)
(* the prior ease is a multiple of 0.25 and nothing was added to it: the   *)
(* grade is 4 (0.1 - 1 * (0.08 + 0.02) is 0.0 in floats) and every         *)
(* personalization term is absent or zero.                                 *)
(***************************************************************************)
\* faulty variant: 0.1 - (5 - q) * 0.08 + (5 - q) * 0.02, the bracket dropped
sm2_delta_unbracketed(quality) ==
    Hundredth * (10 - (5 - quality) * 8 + (5 - quality) * 2)

\* faulty variant: the quadratic term dropped, 0.1 - (5 - q) * 0.08
sm2_delta_linear(quality) ==
    Hundredth * (10 - (5 - quality) * 8)

sm2_delta(quality) ==     \* 0.1 - (5 - q) * (0.08 + (5 - q) * 0.02), in ease units
    Hundredth * (10 - (5 - quality) * (8 + (5 - quality) * 2))

new_ease_factor(self, quality, ease_factor, user_performance_data, now_hour) ==
    LET basic == clamp_ease(self, ease_factor + sm2_delta(quality))
    IN  IF Truthy(user_performance_data)
        THEN apply_personalization(self, basic, user_performance_data[1], now_hour)
        ELSE basic

ease_is_exact(quality, ease_factor, user_performance_data, now_hour) ==
    /\ ease_factor % 75 = 0
    /\ ease_factor >= 390 /\ ease_factor <= 900
    /\ sm2_delta(quality) = 0
    /\ Truthy(user_performance_data) =>
         LET d == user_performance_data[1]
         IN  /\ time_adjustment(d, now_hour) = 0
             /\ difficulty_adjustment(d) = 0
             /\ speed_adjustment(d) = 0

\* round(interval * ease) of the float product
inexact_half(interval, ease, exact) ==
    (2 * interval * ease) % (2 * Ease) = Ease /\ ~exact

\* faulty variant: int() of the product instead of round()
round_product_truncating(interval, ease, exact, lean) ==
    (interval * ease) \div Ease

round_product(interval, ease, exact, lean) ==
    IF inexact_half(interval, ease, exact)
    THEN ((interval * ease) \div Ease) + lean
    ELSE Round(interval * ease, Ease)

\* faulty variant: a failed recall keeps the repetition count
sm2_repetitions_keeping(quality, repetitions) ==
    IF quality >= 3 THEN repetitions + 1 ELSE repetitions

\* faulty variant: a failed recall keeps the prior interval
sm2_interval_keeping(quality, repetitions, interval, ease, exact, lean) ==
    IF quality >= 3
    THEN IF repetitions = 0 THEN 1
         ELSE IF repetitions = 1 THEN 6
         ELSE round_product(interval, ease, exact, lean)
    ELSE interval

sm2_interval(quality, repetitions, interval, ease, exact, lean) ==
    IF quality >= 3
    THEN IF repetitions = 0 THEN 1
         ELSE IF repetitions = 1 THEN 6
         ELSE round_product(interval, ease, exact, lean)
    ELSE 1

sm2_repetitions(quality, repetitions) ==
    IF quality >= 3 THEN repetitions + 1 ELSE 0

\* faulty variant: the dampener is keyed on a field the context never carries
fatigue_applies_wrong_key(user_performance_data) ==
    Truthy(user_performance_data)
    /\ Has(user_performance_data[1], "session_count")

fatigue_applies(user_performance_data) ==
    Truthy(user_performance_data)
    /\ Has(user_performance_data[1], "session_count_today")

\* faulty variant: the date is built from the interval before dampening
next_interval_dated_before_dampening(self, quality, repetitions, ease_factor, interval, user_performance_data, now_hour, now_built, exact, lean) ==
    LET e == new_ease_factor(self, quality, ease_factor, user_performance_data, now_hour)
        computed == sm2_interval(quality, repetitions, interval, e, exact, lean)
        i == IF fatigue_applies(user_performance_data)
             THEN apply_fatigue_adjustment(
                      computed, user_performance_data[1]["session_count_today"])
             ELSE computed
    IN  [status |-> "ok",
         interval |-> i,
         ease_factor |-> e,
         repetitions |-> sm2_repetitions(quality, repetitions),
         quality |-> quality,
         confidence |-> calculate_confidence(quality, repetitions),
         next_review_date |-> now_built + 24 * computed]

\* the method's body, exact telling whether the float new_ease_factor is its
\* decimal value
next_interval(self, quality, repetitions, ease_factor, interval, user_performance_data, now_hour, now_built, exact, lean) ==
    LET e == new_ease_factor(self, quality, ease_factor, user_performance_data, now_hour)
        computed == sm2_interval(quality, repetitions, interval, e, exact, lean)
        i == IF fatigue_applies(user_performance_data)
             THEN apply_fatigue_adjustment(
                      computed, user_performance_data[1]["session_count_today"])
             ELSE computed
    IN  [status |-> "ok",
         interval |-> i,
         ease_factor |-> e,
         repetitions |-> sm2_repetitions(quality, repetitions),
         quality |-> quality,
         confidence |-> calculate_confidence(quality, repetitions),
         \* (datetime.now() + timedelta(days=new_interval)), in hours
         next_review_date |-> now_built + 24 * i]

\* called with an ease factor written as a decimal
calculate_next_interval(self, quality, repetitions, ease_factor, interval, user_performance_data, now_hour, now_built, lean) ==
    next_interval(self, quality, repetitions, ease_factor, interval,
                  user_performance_data, now_hour, now_built,
                  ease_is_exact(quality, ease_factor, user_performance_data, now_hour),
                  lean)

\* called with an ease factor an earlier call returned: a float that went
\* through float additions, and need not be its decimal value
calculate_next_interval_fed(self, quality, repetitions, ease_factor, interval, user_performance_data, now_hour, now_built, lean) ==
    next_interval(self, quality, repetitions, ease_factor, interval,
                  user_performance_data, now_hour, now_built, FALSE, lean)

(***************************************************************************)
(* np.exp on fixed point.  Retention is kept in units of 1e-9 (Nano); the  *)
(* arithmetic below stays inside 32-bit integers.  exp(-n/d) is computed   *)
(* by halving the argument k times until it is at most 1/2, summing the    *)
(* Taylor series there, and squaring the sum k times.  On the inputs of    *)
(* this model, and on a wider grid of eases, intervals and repetitions,    *)
(* the rounded values agree with Python's digit for digit.                 *)
(***************************************************************************)
Nano == 1000 * 1000 * 1000

\* floor(a * b / 1e9) for 0 <= a, b <= 1e9, by limbs of three digits
mul9(a, b) ==
    LET a0 == a % 1000
        a1 == (a \div 1000) % 1000
        a2 == a \div 1000000
        b0 == b % 1000
        b1 == (b \div 1000) % 1000
        b2 == b \div 1000000
        c0 == a0 * b0
        c1 == a0 * b1 + a1 * b0
        c2 == a0 * b2 + a1 * b1 + a2 * b0
        c3 == a1 * b2 + a2 * b1
        c4 == a2 * b2
        low == c0 + c1 * 1000
        t2 == c2 + (low \div 1000000)
    IN  c3 + c4 * 1000 + (t2 \div 1000)

\* floor(n * 10^digits / m), one decimal digit at a time
RECURSIVE longdiv_step(_, _, _, _)
longdiv_step(q, r, m, digits) ==
    IF digits = 0 THEN q
    ELSE longdiv_step(q * 10 + ((r * 10) \div m), (r * 10) % m, m, digits - 1)

longdiv(n, m, digits) == longdiv_step(n \div m, n % m, m, digits)

RECURSIVE pow2(_)
pow2(k) == IF k = 0 THEN 1 ELSE 2 * pow2(k - 1)

\* the least k >= k0 with n / (d * 2^k) <= 1/2
RECURSIVE halvings(_, _, _)
halvings(n, d, k0) == IF 2 * n <= d * pow2(k0) THEN k0 ELSE halvings(n, d, k0 + 1)

\* 1 - y + y^2/2! - ... to fourteen terms, y and the sum in Nano
RECURSIVE taylor(_, _, _, _)
taylor(sum, term, y, n) ==
    IF n > 14 THEN sum
    ELSE LET t == mul9(term, y) \div n
         IN  taylor(IF n % 2 = 1 THEN sum - t ELSE sum + t, t, y, n + 1)

RECURSIVE squarings(_, _)
squarings(r, k) == IF k = 0 THEN r ELSE squarings(mul9(r, r), k - 1)

\* exp(-n / d) in Nano, for n >= 0 and d > 0
exp_neg(n, d) ==
    LET k == halvings(n, d, 0)
        y == longdiv(n, d * pow2(k), 9)
    IN  squarings(taylor(Nano, Nano, y, 1), k)

(***************************************************************************)
(* predict_retention(self, ease_factor, interval, repetitions, days_ahead) *)
(* strength = interval * ease_factor * (1 + repetitions * 0.1) is          *)
(* interval * ease * (10 + repetitions) / 3000 with ease in 1/300.         *)
(* The method validates nothing.  With strength 0 the division -day /      *)
(* strength raises ZeroDivisionError on Python floats and gives -inf,      *)
(* hence retention 0.0, on the numpy scalars the endpoint passes:          *)
(* numpy_args tells which the caller passed.                               *)
(***************************************************************************)
strength_x3000(ease_factor, interval, repetitions) ==
    interval * ease_factor * (10 + repetitions)

\* faulty variant: the point carries the forgotten share, 1 - exp(-day / strength)
retention_point_forgotten(day, strength3000) ==
    LET retention == IF strength3000 > 0
                     THEN Nano - exp_neg(3000 * day, strength3000) ELSE 0
    IN  [day |-> day,
         retention_probability |-> Round(retention, 1000000),
         review_recommended |-> retention < 800000000]

\* faulty variant: the flag is taken from the rounded value
retention_point_flag_rounded(day, strength3000) ==
    LET retention == IF strength3000 > 0
                     THEN exp_neg(3000 * day, strength3000) ELSE 0
    IN  [day |-> day,
         retention_probability |-> Round(retention, 1000000),
         review_recommended |-> Round(retention, 1000000) < 800]

\* one point of the curve; retention_probability, round(retention, 3), in
\* thousandths
retention_point(day, strength3000) ==
    IF strength3000 > 0
    THEN LET retention == exp_neg(3000 * day, strength3000)
         IN  [day |-> day,
              retention_probability |-> Round(retention, 1000000),
              review_recommended |-> retention < 800000000]
    ELSE IF strength3000 = 0
    THEN [day |-> day, retention_probability |-> 0, review_recommended |-> TRUE]
    ELSE \* exp(+x) = 1 / exp(-x), to six decimals and then rounded to three;
         \* good to the last digit while the value stays below 10
         LET inverse == exp_neg(3000 * day, -strength3000) \div 10
             retention6 == longdiv(100000000, inverse, 6)
         IN  [day |-> day,
              retention_probability |-> Round(retention6, 1000),
              review_recommended |-> FALSE]

\* faulty variant: the loop runs over range(days_ahead), days 0 .. days_ahead - 1
predict_retention_from_zero(ease_factor, interval, repetitions, days_ahead, numpy_args) ==
    LET strength3000 == strength_x3000(ease_factor, interval, repetitions)
    IN  IF days_ahead >= 1 /\ strength3000 = 0 /\ ~numpy_args
        THEN [status |-> "ZeroDivisionError"]
        ELSE [status |-> "ok",
              retention_curve |->
                  [i \in 1..Max(days_ahead, 0) |-> retention_point(i - 1, strength3000)]]

predict_retention(ease_factor, interval, repetitions, days_ahead, numpy_args) ==
    LET strength3000 == strength_x3000(ease_factor, interval, repetitions)
    IN  IF days_ahead >= 1 /\ strength3000 = 0 /\ ~numpy_args
        THEN [status |-> "ZeroDivisionError"]
        ELSE [status |-> "ok",
              retention_curve |->
                  [day \in 1..Max(days_ahead, 0) |-> retention_point(day, strength3000)]]

(***************************************************************************)
(* get_optimal_review_time(self, user_performance_history).  A DataFrame   *)
(* is [columns, rows]: the set of its column names and the sequence of its *)
(* rows, each row a function from the column names.  completed_at is in    *)
(* hours since a Monday 00:00, so .dt.hour is t % 24 and .dt.dayofweek is  *)
(* (t div 24) % 7 with 0 = Monday.  A mean is kept as the reduced fraction *)
(* <<numerator, denominator>>.  The method assigns the columns hour and    *)
(* day_of_week on the frame it was handed, so it returns, beside its       *)
(* result, the frame as the caller finds it afterwards.                    *)
(***************************************************************************)
DataFrame(columns, rows) == [columns |-> columns, rows |-> rows]
empty(df) == df.columns = {} \/ Len(df.rows) = 0

\* df[name] = f(df['completed_at']): the column is added, or overwritten
assign_hour(df) ==
    DataFrame(df.columns \cup {"hour"},
              [i \in DOMAIN df.rows |->
                  ("hour" :> (df.rows[i]["completed_at"] % 24)) @@ df.rows[i]])

assign_day_of_week(df) ==
    DataFrame(df.columns \cup {"day_of_week"},
              [i \in DOMAIN df.rows |->
                  ("day_of_week" :> ((df.rows[i]["completed_at"] \div 24) % 7))
                  @@ df.rows[i]])

RECURSIVE gcd(_, _)
gcd(a, b) == IF b = 0 THEN a ELSE gcd(b, a % b)

RECURSIVE sum_quality(_, _)
sum_quality(rows, idx) ==
    IF idx = {} THEN 0
    ELSE LET i == CHOOSE i \in idx : TRUE
         IN  rows[i]["quality"] + sum_quality(rows, idx \ {i})

\* df.groupby(by)['quality'].agg(['mean', 'count'])
groupby_quality(df, by) ==
    [k \in {df.rows[i][by] : i \in DOMAIN df.rows} |->
        LET idx == {i \in DOMAIN df.rows : df.rows[i][by] = k}
            total == sum_quality(df.rows, idx)
            count == Cardinality(idx)
            g == gcd(total, count)
        IN  [mean |-> <<total \div g, count \div g>>, count |-> count]]

\* faulty variant: the filter keeps every hour that has a record
at_least_two_unfiltered(perf) == [k \in {k \in DOMAIN perf : perf[k].count >= 1} |-> perf[k]]

at_least_two(perf) == [k \in {k \in DOMAIN perf : perf[k].count >= 2} |-> perf[k]]

mean_less(m1, m2) == m1[1] * m2[2] < m2[1] * m1[2]

\* faulty variant: among equal means the last label wins
idxmax_last(perf) ==
    CHOOSE k \in DOMAIN perf :
        \A j \in DOMAIN perf :
            /\ ~mean_less(perf[k].mean, perf[j].mean)
            /\ perf[j].mean = perf[k].mean => k >= j

\* faulty variant: argmax, the position of the largest mean, not its label
idxmax_position(perf) ==
    LET label == CHOOSE k \in DOMAIN perf :
                     \A j \in DOMAIN perf :
                         /\ ~mean_less(perf[k].mean, perf[j].mean)
                         /\ perf[j].mean = perf[k].mean => k <= j
    IN  Cardinality({j \in DOMAIN perf : j < label})

\* Series.idxmax(): the first label, in ascending key order, of the largest mean
idxmax(perf) ==
    CHOOSE k \in DOMAIN perf :
        \A j \in DOMAIN perf :
            /\ ~mean_less(perf[k].mean, perf[j].mean)
            /\ perf[j].mean = perf[k].mean => k <= j

means(perf) == [k \in DOMAIN perf |-> perf[k].mean]

day_name(day_num) ==
    <<"Monday", "Tuesday", "Wednesday", "Thursday", "Friday", "Saturday",
      "Sunday">>[day_num + 1]

\* faulty variant: the default day is Monday
default_times_monday ==
    [best_hour |-> 10, best_day_of_week |-> 0,
     performance_by_hour |-> <<>>, performance_by_day |-> <<>>]

\* what an empty history returns: 10 AM, Tuesday, two empty dicts
default_times ==
    [best_hour |-> 10, best_day_of_week |-> 1,
     performance_by_hour |-> <<>>, performance_by_day |-> <<>>]

get_optimal_review_time(user_performance_history) ==
    LET df0 == user_performance_history
    IN  IF empty(df0)
        THEN [frame |-> df0,
              result |-> [status |-> "ok", value |-> default_times]]
        ELSE IF "completed_at" \notin df0.columns
        THEN [frame |-> df0,
              result |-> [status |-> "KeyError", key |-> "completed_at"]]
        ELSE LET df == assign_day_of_week(assign_hour(df0))
             IN  IF "quality" \notin df.columns
                 THEN [frame |-> df,
                       result |-> [status |-> "KeyError", key |-> "quality"]]
                 ELSE LET hourly_performance ==
                              at_least_two(groupby_quality(df, "hour"))
                          daily_performance == groupby_quality(df, "day_of_week")
                          best_hour == IF DOMAIN hourly_performance # {}
                                       THEN idxmax(hourly_performance) ELSE 10
                          best_day == IF DOMAIN daily_performance # {}
                                      THEN idxmax(daily_performance) ELSE 1
                      IN  [frame |-> df,
                           result |->
                             [status |-> "ok",
                              value |->
                                [best_hour |-> best_hour,
                                 best_day_of_week |-> best_day,
                                 performance_by_hour |-> means(hourly_performance),
                                 performance_by_day |-> means(daily_performance),
                                 \* "Your best performance is at {hour}:00 on {day}s"
                                 recommendation |->
                                   [hour |-> best_hour, day |-> day_name(best_day)]]]]

\* the sides the float product of a call can fall to
leans(quality, repetitions, ease_factor, interval, user_performance_data, now_hour) ==
    LET e == new_ease_factor(AdvancedSpacedRepetition, quality, ease_factor,
                             user_performance_data, now_hour)
        exact == ease_is_exact(quality, ease_factor, user_performance_data, now_hour)
    IN  IF quality >= 3 /\ repetitions \notin {0, 1} /\ inexact_half(interval, e, exact)
        THEN {0, 1} ELSE {0}

(***************************************************************************)
(* The arguments callers pass.  The endpoint hands calculate_next_interval *)
(* the unchecked fields of a ReviewRequest and a dict holding whichever of *)
(* the four performance fields its queries produced.                       *)
(***************************************************************************)
Field(k, V) == {[x \in {k} |-> v] : v \in V}
Optional(S) == S \cup {<<>>}
Dicts(H, D, I, S) ==
    {h @@ d @@ i @@ s :
        h \in Optional(Field("best_performance_hour", H)),
        d \in Optional(Field("subject_difficulty_avg", D)),
        i \in Optional(Field("avg_quality_improvement", I)),
        s \in Optional(Field("session_count_today", S))}

ValidQuality == 0..5
ValidRepetitions == 0..MaxReps
ValidEase == {390, 750, 900}
ValidInterval == {1, 5, 10}
IsValid(a) ==
    /\ a.quality \in 0..5
    /\ a.repetitions >= 0
    /\ a.interval >= 1
    /\ a.ease_factor >= 390 /\ a.ease_factor <= 900

Contexts == {None} \cup {Some(d) : d \in Dicts({20}, {400}, {60}, {4, 6})}
FewContexts ==
    {None,
     Some([best_performance_hour |-> 20, subject_difficulty_avg |-> 400,
           avg_quality_improvement |-> -30, session_count_today |-> 6])}

ValidArgs ==
    [quality : ValidQuality, repetitions : ValidRepetitions, ease_factor : ValidEase,
     interval : ValidInterval, user_performance_data : Contexts]
\* one argument outside its documented range, the others inside
InvalidArgs ==
    [quality : {-1, 6}, repetitions : ValidRepetitions, ease_factor : ValidEase,
     interval : ValidInterval, user_performance_data : FewContexts]
    \cup
    [quality : ValidQuality, repetitions : {-1}, ease_factor : ValidEase,
     interval : ValidInterval, user_performance_data : FewContexts]
    \cup
    [quality : ValidQuality, repetitions : ValidRepetitions, ease_factor : {360, 930},
     interval : ValidInterval, user_performance_data : FewContexts]
    \cup
    [quality : ValidQuality, repetitions : ValidRepetitions, ease_factor : ValidEase,
     interval : {-1, 0}, user_performance_data : FewContexts]

(***************************************************************************)
(* State and actions.                                                      *)
(***************************************************************************)
Idle == [op |-> "idle", args |-> <<>>, env |-> <<>>, result |-> <<>>]

Init ==
    /\ sr_service = AdvancedSpacedRepetition
    /\ clock \in 0..MaxClock
    /\ history = DataFrame({"completed_at", "quality"}, <<>>)
    /\ call = Idle
    /\ prev = Idle

\* the wall clock moves on between calls
Tick ==
    /\ call.op = "idle"
    /\ clock < MaxClock
    /\ clock' = clock + 1
    /\ UNCHANGED <<sr_service, history, call, prev>>

\* One call of sr_service.calculate_next_interval(**a).  The clock may pass
\* an hour boundary between the method's two reads of it; lean is the side
\* an inexact float product falls to (see calculate_next_interval).  env
\* keeps what the call took from outside its arguments.
graded(a, now_hour, now_built, lean) ==
    [op |-> "calculate_next_interval",
     args |-> a,
     env |-> [now_hour |-> now_hour, lean |-> lean],
     result |-> calculate_next_interval(
                    sr_service, a.quality, a.repetitions, a.ease_factor,
                    a.interval, a.user_performance_data, now_hour, now_built, lean)]

Grade(a) ==
    /\ \E now_built \in {clock, Min(clock + 1, MaxClock)},
          lean \in leans(a.quality, a.repetitions, a.ease_factor, a.interval,
                         a.user_performance_data, clock % 24) :
         /\ call' = graded(a, clock % 24, now_built, lean)
         /\ clock' = now_built
    /\ prev' = Idle
    /\ UNCHANGED <<sr_service, history>>

GradeValid == call.op = "idle" /\ \E a \in ValidArgs : Grade(a)
GradeInvalid == call.op = "idle" /\ \E a \in InvalidArgs : Grade(a)

\* _apply_personalization called alone
PersonalizationEase == {0, 390, 750, 900, 1200}
PersonalizationDicts ==
    Dicts({3, 20}, {200, 250, 350, 400}, {-30, -20, 50, 60}, {6})

Personalize ==
    /\ call.op = "idle"
    /\ \E e \in PersonalizationEase, d \in PersonalizationDicts :
         call' = [op |-> "_apply_personalization",
                  args |-> [ease_factor |-> e, performance_data |-> d],
                  env |-> [now_hour |-> clock % 24],
                  result |-> [status |-> "ok",
                              value |-> apply_personalization(sr_service, e, d,
                                                              clock % 24)]]
    /\ prev' = Idle
    /\ UNCHANGED <<sr_service, clock, history>>

\* _apply_fatigue_adjustment called alone
Dampen ==
    /\ call.op = "idle"
    /\ \E i \in -1..MaxInterval, n \in -1..MaxSessions :
         call' = [op |-> "_apply_fatigue_adjustment",
                  args |-> [interval |-> i, session_count |-> n],
                  env |-> <<>>,
                  result |-> [status |-> "ok",
                              value |-> apply_fatigue_adjustment(i, n)]]
    /\ prev' = Idle
    /\ UNCHANGED <<sr_service, clock, history>>

\* _calculate_confidence called alone
Confidence ==
    /\ call.op = "idle"
    /\ \E q \in -1..6, r \in -1..MaxConfReps :
         call' = [op |-> "_calculate_confidence",
                  args |-> [quality |-> q, repetitions |-> r],
                  env |-> <<>>,
                  result |-> [status |-> "ok",
                              value |-> calculate_confidence(q, r)]]
    /\ prev' = Idle
    /\ UNCHANGED <<sr_service, clock, history>>

\* the caller consumes the result; results are transient values
Consume ==
    /\ call.op # "idle"
    /\ call' = Idle
    /\ prev' = Idle
    /\ UNCHANGED <<sr_service, clock, history>>

Next == Tick \/ GradeValid \/ GradeInvalid \/ Personalize \/ Dampen \/ Confidence
        \/ Consume

Spec == Init /\ [][Next]_vars

(***************************************************************************)
(* A caller that repeats a grading call with the same arguments some hours *)
(* later.  Float arithmetic is deterministic: where both calls add the     *)
(* same time-of-day term, the float product falls to the same side.        *)
(***************************************************************************)
RepeatArgs ==
    [quality : {2, 4, 5}, repetitions : {2}, ease_factor : {750}, interval : {10},
     user_performance_data :
        {None,
         Some([best_performance_hour |-> 20]),
         Some([session_count_today |-> 6]),
         Some([best_performance_hour |-> 20, subject_difficulty_avg |-> 400,
               avg_quality_improvement |-> 60, session_count_today |-> 4])}]

GradeOnce == call.op = "idle" /\ \E a \in RepeatArgs : Grade(a)

same_time_term(data, h1, h2) ==
    Truthy(data) => time_adjustment(data[1], h1) = time_adjustment(data[1], h2)

Repeat ==
    /\ call.op = "calculate_next_interval"
    /\ \E t \in clock..MaxClock :
         LET a == call.args
             data == a.user_performance_data
         IN  \E now_built \in {t, Min(t + 1, MaxClock)},
                lean \in IF same_time_term(data, call.env.now_hour, t % 24)
                         THEN {call.env.lean}
                         ELSE leans(a.quality, a.repetitions, a.ease_factor,
                                    a.interval, data, t % 24) :
               /\ call' = graded(a, t % 24, now_built, lean)
               /\ clock' = now_built
    /\ prev' = call
    /\ UNCHANGED <<sr_service, history>>

NextRepeat == Tick \/ GradeOnce \/ Repeat \/ Consume

SpecRepeat == Init /\ [][NextRepeat]_vars

(***************************************************************************)
(* The retention forecast.  The endpoint passes the stored easeFactor,     *)
(* interval and repetitions of a review and an unchecked days_ahead.       *)
(***************************************************************************)
ForecastEase == {0, 390, 750, 900}
ForecastInterval == {-10, 0, 1, 10, 31, 365, 2000}
ForecastRepetitions == {0, 3, 10}

Forecast ==
    /\ call.op = "idle"
    /\ \E e \in ForecastEase, i \in ForecastInterval, r \in ForecastRepetitions,
          days_ahead \in -1..MaxDays, numpy_args \in BOOLEAN :
         call' = [op |-> "predict_retention",
                  args |-> [ease_factor |-> e, interval |-> i, repetitions |-> r,
                            days_ahead |-> days_ahead],
                  env |-> <<>>,
                  result |-> predict_retention(e, i, r, days_ahead, numpy_args)]
    /\ prev' = Idle
    /\ UNCHANGED <<sr_service, clock, history>>

NextForecast == Forecast \/ Consume

\* predict_retention reads no clock
InitForecast == Init /\ clock = 0

SpecForecast == InitForecast /\ [][NextForecast]_vars

(***************************************************************************)
(* The time-preference analysis.  The endpoint reads the reviews of a user *)
(* newest first (ORDER BY "completedAt" DESC), hands the frame to          *)
(* get_optimal_review_time and drops it with the response.                 *)
(***************************************************************************)
Stamps == {9, 14, 33, 38}          \* Monday 9h and 14h, Tuesday 9h and 14h
HistoryQuality == {3, 4, 5}
Records == [completed_at : Stamps, quality : HistoryQuality]
ColumnSets == {{"completed_at", "quality"}, {"completed_at"}, {"quality"}}

NewestFirst ==
    {rows \in UNION {[1..n -> Records] : n \in 0..MaxRows} :
        \A i \in 1..(Len(rows) - 1) :
            rows[i]["completed_at"] >= rows[i + 1]["completed_at"]}

project(rows, columns) == [i \in DOMAIN rows |-> [c \in columns |-> rows[i][c]]]

Frames == {DataFrame(c, project(rows, c)) : c \in ColumnSets, rows \in NewestFirst}

\* the caller builds the frame it is about to hand over
Load ==
    /\ call.op = "idle"
    /\ empty(history)
    /\ history' \in Frames
    /\ UNCHANGED <<sr_service, clock, call, prev>>

Analyze ==
    /\ call.op = "idle"
    /\ LET out == get_optimal_review_time(history)
       IN  /\ call' = [op |-> "get_optimal_review_time",
                       args |-> [user_performance_history |-> history],
                       env |-> <<>>,
                       result |-> out.result]
           /\ history' = out.frame
    /\ prev' = Idle
    /\ UNCHANGED <<sr_service, clock>>

\* the response is sent and the frame dropped
Respond ==
    /\ call.op = "get_optimal_review_time"
    /\ call' = Idle
    /\ history' = DataFrame({"completed_at", "quality"}, <<>>)
    /\ UNCHANGED <<sr_service, clock, prev>>

NextHistory == Load \/ Analyze \/ Respond

\* get_optimal_review_time reads no clock
InitHistory == Init /\ clock = 0

SpecHistory == InitHistory /\ [][NextHistory]_vars

(***************************************************************************)
(* A card graded again and again: the endpoint's caller stores the         *)
(* returned interval, ease_factor and repetitions and sends them back with *)
(* the next grade.  prev is the caller's log of the card: whether it began *)
(* new (repetitions 0), the number of grades >= 3 since the last grade < 3 *)
(* (or since the start), and whether a grade < 3 was ever received.        *)
(***************************************************************************)
ChainStates ==
    [ease_factor : {390, 750, 900}, interval : {1}, repetitions : {0}]
    \cup [ease_factor : {390, 750, 900}, interval : {10}, repetitions : {2}]
ChainContexts ==
    {None,
     Some([subject_difficulty_avg |-> 200]),
     Some([subject_difficulty_avg |-> 400, session_count_today |-> 6])}

logged(log, quality) ==
    [log EXCEPT !.streak = IF quality >= 3 THEN @ + 1 ELSE 0,
                !.failed = @ \/ quality < 3]

FirstGrade ==
    /\ call.op = "idle"
    /\ \E s \in ChainStates, q \in ValidQuality, data \in ChainContexts :
         LET a == [quality |-> q, repetitions |-> s.repetitions,
                   ease_factor |-> s.ease_factor, interval |-> s.interval,
                   user_performance_data |-> data]
         IN  /\ \E now_built \in {clock, Min(clock + 1, MaxClock)},
                   lean \in leans(q, a.repetitions, a.ease_factor, a.interval,
                                  data, clock % 24) :
                  /\ call' = graded(a, clock % 24, now_built, lean)
                  /\ clock' = now_built
             /\ prev' = logged([op |-> "card", new |-> s.repetitions = 0,
                                streak |-> 0, failed |-> FALSE], q)
    /\ UNCHANGED <<sr_service, history>>

\* the sides the float product can fall to when the ease was fed back
leans_fed(quality, repetitions, ease_factor, interval, user_performance_data, now_hour) ==
    LET e == new_ease_factor(AdvancedSpacedRepetition, quality, ease_factor,
                             user_performance_data, now_hour)
    IN  IF quality >= 3 /\ repetitions \notin {0, 1} /\ inexact_half(interval, e, FALSE)
        THEN {0, 1} ELSE {0}

NextGrade ==
    /\ call.op = "calculate_next_interval"
    /\ prev.op = "card"
    /\ call.result.repetitions <= MaxChainReps
    /\ \E q \in ValidQuality, data \in ChainContexts :
         LET a == [quality |-> q, repetitions |-> call.result.repetitions,
                   ease_factor |-> call.result.ease_factor,
                   interval |-> call.result.interval,
                   user_performance_data |-> data]
         IN  /\ \E now_built \in {clock, Min(clock + 1, MaxClock)},
                   lean \in leans_fed(q, a.repetitions, a.ease_factor, a.interval,
                                      data, clock % 24) :
                  /\ call' = [op |-> "calculate_next_interval",
                              args |-> a,
                              env |-> [now_hour |-> clock % 24, lean |-> lean],
                              result |-> calculate_next_interval_fed(
                                  sr_service, q, a.repetitions, a.ease_factor,
                                  a.interval, data, clock % 24, now_built, lean)]
                  /\ clock' = now_built
             /\ prev' = logged(prev, q)
    /\ UNCHANGED <<sr_service, history>>

NextChain == FirstGrade \/ NextGrade \/ Consume

\* late enough that the clock of the model stays in one hour
InitChain == Init /\ clock = MaxClock

SpecChain == InitChain /\ [][NextChain]_vars

(***************************************************************************)
(* Calls in parallel.  Worker threads call the one sr_service at once; a   *)
(* thread runs its method statement by statement and any other thread, or  *)
(* the clock, may step in between.  In this specification call maps each   *)
(* thread to its frame: the method, its arguments, what it read of the     *)
(* clock (env), its program counter, its locals and, once returned, its    *)
(* result.  self is read at the clamps of lines 33 and 109 and written     *)
(* nowhere.                                                                *)
(***************************************************************************)
Threads == 1..MaxThreads

ParallelArgs ==
    [quality : {2, 5}, repetitions : {2}, ease_factor : {750}, interval : {10},
     user_performance_data :
        {Some([best_performance_hour |-> 20, session_count_today |-> 6])}]
    \cup
    [quality : {4}, repetitions : {2}, ease_factor : {750}, interval : {5},
     user_performance_data : {None}]

\* faulty variant: the method keeps the ease it computed as the instance's
\* new default
self_after_caching(self, new_ease) ==
    [self EXCEPT !.base_ease_factor = new_ease]

\* the instance after calculate_next_interval assigned its local
\* new_ease_factor: no statement of the class assigns to self outside
\* __init__
self_after(self, new_ease) == self

frame(op, args, pc) ==
    [op |-> op, args |-> args, env |-> <<>>, pc |-> pc, locals |-> <<>>,
     result |-> <<>>]

Invoke(t) ==
    /\ call[t].op = "idle"
    /\ \/ \E a \in ParallelArgs :
            call' = [call EXCEPT ![t] = frame("calculate_next_interval", a, "update")]
       \/ call' = [call EXCEPT ![t] =
                     frame("predict_retention",
                           [ease_factor |-> 750, interval |-> 10,
                            repetitions |-> 3, days_ahead |-> 2], "run")]
       \/ call' = [call EXCEPT ![t] =
                     frame("_calculate_confidence",
                           [quality |-> 4, repetitions |-> 2], "run")]
    /\ UNCHANGED <<sr_service, clock, history, prev>>

\* lines 32-33: the SM-2 update and its clamp
StepUpdate(t) ==
    /\ call[t].op = "calculate_next_interval" /\ call[t].pc = "update"
    /\ LET a == call[t].args
           e == clamp_ease(sr_service, a.ease_factor + sm2_delta(a.quality))
       IN  /\ call' = [call EXCEPT ![t].locals = [new_ease_factor |-> e],
                                   ![t].pc = "personalize"]
           /\ sr_service' = self_after(sr_service, e)
    /\ UNCHANGED <<clock, history, prev>>

\* lines 36-40: _apply_personalization, which reads the hour
StepPersonalize(t) ==
    /\ call[t].op = "calculate_next_interval" /\ call[t].pc = "personalize"
    /\ LET a == call[t].args
           data == a.user_performance_data
           e == call[t].locals.new_ease_factor
       IN  call' = [call EXCEPT
                      ![t].locals =
                          [new_ease_factor |->
                              IF Truthy(data)
                              THEN apply_personalization(sr_service, e, data[1],
                                                         clock % 24)
                              ELSE e],
                      ![t].env = [now_hour |-> clock % 24],
                      ![t].pc = "interval"]
    /\ UNCHANGED <<sr_service, clock, history, prev>>

\* lines 43-60: the interval rule and the fatigue dampener
StepInterval(t) ==
    /\ call[t].op = "calculate_next_interval" /\ call[t].pc = "interval"
    /\ LET a == call[t].args
           data == a.user_performance_data
           e == call[t].locals.new_ease_factor
           exact == ease_is_exact(a.quality, a.ease_factor, data,
                                  call[t].env.now_hour)
       IN  \E lean \in IF a.quality >= 3 /\ a.repetitions \notin {0, 1}
                          /\ inexact_half(a.interval, e, exact)
                       THEN {0, 1} ELSE {0} :
             LET computed == sm2_interval(a.quality, a.repetitions, a.interval,
                                          e, exact, lean)
                 i == IF fatigue_applies(data)
                      THEN apply_fatigue_adjustment(
                               computed, data[1]["session_count_today"])
                      ELSE computed
             IN  call' = [call EXCEPT
                            ![t].locals =
                                [new_ease_factor |-> e,
                                 new_interval |-> i,
                                 new_repetitions |->
                                     sm2_repetitions(a.quality, a.repetitions)],
                            ![t].env = [now_hour |-> call[t].env.now_hour,
                                        lean |-> lean],
                            ![t].pc = "build"]
    /\ UNCHANGED <<sr_service, clock, history, prev>>

\* lines 62-69: the result, which reads the clock again
StepBuild(t) ==
    /\ call[t].op = "calculate_next_interval" /\ call[t].pc = "build"
    /\ LET a == call[t].args
           l == call[t].locals
       IN  call' = [call EXCEPT
                      ![t].result =
                          [status |-> "ok",
                           interval |-> l.new_interval,
                           ease_factor |-> l.new_ease_factor,
                           repetitions |-> l.new_repetitions,
                           quality |-> a.quality,
                           confidence |->
                               calculate_confidence(a.quality, a.repetitions),
                           next_review_date |-> clock + 24 * l.new_interval],
                      ![t].env = [now_hour |-> call[t].env.now_hour,
                                  lean |-> call[t].env.lean,
                                  now_built |-> clock],
                      ![t].pc = "returned"]
    /\ UNCHANGED <<sr_service, clock, history, prev>>

\* predict_retention and _calculate_confidence read neither self nor the clock
Run(t) ==
    /\ call[t].pc = "run"
    /\ LET a == call[t].args
       IN  call' = [call EXCEPT
                      ![t].result =
                          IF call[t].op = "predict_retention"
                          THEN predict_retention(a.ease_factor, a.interval,
                                                 a.repetitions, a.days_ahead, FALSE)
                          ELSE [status |-> "ok",
                                value |-> calculate_confidence(a.quality,
                                                               a.repetitions)],
                      ![t].pc = "returned"]
    /\ UNCHANGED <<sr_service, clock, history, prev>>

Return(t) ==
    /\ call[t].pc = "returned"
    /\ call' = [call EXCEPT ![t] = [op |-> "idle", pc |-> "idle"]]
    /\ UNCHANGED <<sr_service, clock, history, prev>>

\* the wall clock moves on while calls run
TickParallel ==
    /\ clock < MaxClock
    /\ clock' = clock + 1
    /\ UNCHANGED <<sr_service, history, call, prev>>

NextParallel ==
    \/ TickParallel
    \/ \E t \in Threads :
         \/ Invoke(t)
         \/ StepUpdate(t)
         \/ StepPersonalize(t)
         \/ StepInterval(t)
         \/ StepBuild(t)
         \/ Run(t)
         \/ Return(t)

InitParallel ==
    /\ sr_service = AdvancedSpacedRepetition
    /\ clock = MaxClock - 1
    /\ history = DataFrame({"completed_at", "quality"}, <<>>)
    /\ call = [t \in Threads |-> [op |-> "idle", pc |-> "idle"]]
    /\ prev = Idle

SpecParallel == InitParallel /\ [][NextParallel]_vars

(***************************************************************************)
(* Properties.                                                             *)
(***************************************************************************)
Graded == call.op = "calculate_next_interval"
Context == call.args.user_performance_data
HasField(k) == Truthy(Context) /\ Has(Context[1], k)

\* C1: with quality in 0..5 and a prior ease in [1.3, 3.0], the ease factor
\* calculate_next_interval returns lies in [1.3, 3.0], for every context and
\* every hour of day; _apply_personalization alone returns a value in
\* [1.3, 3.0] for every ease it is given.
C1_EaseWithinBounds ==
    /\ (Graded /\ call.args.quality \in 0..5
          /\ call.args.ease_factor >= 390 /\ call.args.ease_factor <= 900)
       => (call.result.status = "ok"
           /\ call.result.ease_factor >= 390 /\ call.result.ease_factor <= 900)
    /\ call.op = "_apply_personalization"
       => (call.result.value >= 390 /\ call.result.value <= 900)

\* the clamp is what holds the ease at 3.0: a perfect grade on ease 3.0 from
\* a fast learner
C1_Witness ==
    /\ Graded /\ IsValid(call.args)
    /\ call.args.quality = 5 /\ call.args.ease_factor = 900
    /\ HasField("avg_quality_improvement")
    /\ Context[1]["avg_quality_improvement"] > 50
    /\ ~HasField("best_performance_hour")
    /\ call.result.ease_factor = 900

\* C2: a grade below 3 resets repetitions to 0 and the interval to 1, whatever
\* the prior state and the context, fatigue dampening included.
C2_FailedRecallResets ==
    (Graded /\ call.args.quality < 3)
    => (call.result.repetitions = 0 /\ call.result.interval = 1)

C2_Witness ==
    /\ Graded /\ IsValid(call.args) /\ call.args.quality = 2
    /\ call.args.repetitions = 3 /\ call.args.interval = 10
    /\ HasField("session_count_today") /\ Context[1]["session_count_today"] > 5
    /\ call.result.interval = 1

\* C3 as stated: on a successful recall, prior repetitions 0 gives interval 1
\* and prior repetitions 1 gives interval 6, with or without a context.
C3_FirstIntervals_Original ==
    (Graded /\ IsValid(call.args) /\ call.args.quality >= 3)
    => /\ call.args.repetitions = 0 => call.result.interval = 1
       /\ call.args.repetitions = 1 => call.result.interval = 6

\* C3 amended: prior repetitions 0 gives 1; prior repetitions 1 gives 6
\* unless the context carries session_count_today > 3, and then the fatigue
\* dampener makes it 5.
C3_FirstIntervals ==
    (Graded /\ IsValid(call.args) /\ call.args.quality >= 3)
    => /\ call.args.repetitions = 0 => call.result.interval = 1
       /\ call.args.repetitions = 1 =>
            call.result.interval =
                IF HasField("session_count_today")
                   /\ Context[1]["session_count_today"] > 3
                THEN 5 ELSE 6

C3_Witness ==
    /\ Graded /\ IsValid(call.args) /\ call.args.quality >= 3
    /\ call.args.repetitions = 1
    /\ HasField("session_count_today") /\ Context[1]["session_count_today"] = 4
    /\ call.result.interval = 5

\* C4: calculate_next_interval fails with InvalidInputError, and returns no
\* result, when quality is outside 0..5, repetitions or interval is negative,
\* or the ease factor is outside [1.3, 3.0].
C4_InvalidInputRejected ==
    (Graded /\ (call.args.quality \notin 0..5 \/ call.args.repetitions < 0
                \/ call.args.interval < 0
                \/ call.args.ease_factor < 390 \/ call.args.ease_factor > 900))
    => call.result.status = "InvalidInputError"

Repeated ==
    /\ Graded /\ prev.op = "calculate_next_interval"
    /\ prev.args = call.args

SameButDate(r1, r2) ==
    /\ r1.interval = r2.interval
    /\ r1.ease_factor = r2.ease_factor
    /\ r1.repetitions = r2.repetitions
    /\ r1.quality = r2.quality
    /\ r1.confidence = r2.confidence

\* C5 as stated: two calls with identical arguments, made at two wall-clock
\* times, hours of day included, return the same interval, ease_factor,
\* repetitions, quality and confidence.
C5_ClockIndependent_Original ==
    Repeated => SameButDate(prev.result, call.result)

\* C5 amended: they return the same five fields when the context carries no
\* best_performance_hour or both calls run in the same hour of day.
C5_ClockIndependent ==
    (Repeated /\ (~HasField("best_performance_hour")
                  \/ prev.env.now_hour = call.env.now_hour))
    => SameButDate(prev.result, call.result)

\* the same fatigued grading repeated in another hour and due on another date
C5_Witness ==
    /\ Repeated
    /\ ~HasField("best_performance_hour") /\ HasField("session_count_today")
    /\ prev.env.now_hour # call.env.now_hour
    /\ prev.result.next_review_date # call.result.next_review_date
    /\ SameButDate(prev.result, call.result)

\* C6: get_optimal_review_time leaves the history it receives as it was, the
\* same records with the same fields, whether it returns a result or fails
\* part-way.
C6_HistoryUntouched ==
    call.op = "get_optimal_review_time"
    => history = call.args.user_performance_history

\* C7: for interval >= 1 and session_count >= 0 the fatigue dampener returns
\* r with 1 <= r <= interval.
C7_DampenerRange ==
    (call.op = "_apply_fatigue_adjustment"
     /\ call.args.interval >= 1 /\ call.args.session_count >= 0)
    => (call.result.value >= 1 /\ call.result.value <= call.args.interval)

C7_Witness ==
    /\ call.op = "_apply_fatigue_adjustment"
    /\ call.args.interval = 1 /\ call.args.session_count = 6
    /\ call.result.value = 1

\* C8: for quality in 0..5 and repetitions >= 0 the confidence is
\* min(1, 0.7 * quality / 5 + min(0.3, 0.05 * repetitions)), lies in [0, 1],
\* and does not decrease when quality or repetitions grows.
C8_Confidence ==
    (call.op = "_calculate_confidence"
     /\ call.args.quality \in 0..5 /\ call.args.repetitions >= 0)
    => LET q == call.args.quality
           r == call.args.repetitions
           c == call.result.value
           bonus == IF 50 * r < 300 THEN 50 * r ELSE 300
           sum == 140 * q + bonus
       IN  /\ c = (IF sum < 1000 THEN sum ELSE 1000)
           /\ c >= 0 /\ c <= 1000
           /\ \A q2 \in 0..5 : q2 >= q => calculate_confidence(q2, r) >= c
           /\ \A r2 \in 0..(MaxConfReps + 1) :
                r2 >= r => calculate_confidence(q, r2) >= c

\* the bonus has reached its cap and the sum its ceiling
C8_Witness ==
    /\ call.op = "_calculate_confidence"
    /\ call.args.quality = 5 /\ call.args.repetitions = 7
    /\ call.result.value = 1000

Forecasted == call.op = "predict_retention"
ValidForecast ==
    /\ call.args.ease_factor >= 390 /\ call.args.ease_factor <= 900
    /\ call.args.interval >= 1 /\ call.args.repetitions >= 0
    /\ call.args.days_ahead >= 1
Curve == call.result.retention_curve

\* C9 as stated: for a valid state and days_ahead >= 1 the returned
\* retention_probability values fall strictly from each day to the next and
\* each is greater than 0 and at most 1.
C9_RetentionStrictlyDecreasing_Original ==
    (Forecasted /\ ValidForecast)
    => /\ call.result.status = "ok"
       /\ \A d \in DOMAIN Curve :
            /\ Curve[d].retention_probability > 0
            /\ Curve[d].retention_probability <= 1000
            /\ d > 1 => Curve[d].retention_probability
                          < Curve[d - 1].retention_probability

\* C9 amended: the returned values, rounded to three decimals, never rise
\* from one day to the next and each lies in [0, 1].
C9_RetentionNonIncreasing ==
    (Forecasted /\ ValidForecast)
    => /\ call.result.status = "ok"
       /\ \A d \in DOMAIN Curve :
            /\ Curve[d].retention_probability >= 0
            /\ Curve[d].retention_probability <= 1000
            /\ d > 1 => Curve[d].retention_probability
                          <= Curve[d - 1].retention_probability

\* a curve that falls, then flattens at a rounded 0.0
C9_Witness ==
    /\ Forecasted /\ ValidForecast /\ call.result.status = "ok"
    /\ Len(Curve) = MaxDays
    /\ Curve[2].retention_probability < Curve[1].retention_probability
    /\ Curve[MaxDays].retention_probability = 0

\* C10: predict_retention fails with InvalidInputError, returning no curve,
\* when strength <= 0 or days_ahead <= 0.
C10_ForecastRejectsInvalid ==
    (Forecasted
     /\ (strength_x3000(call.args.ease_factor, call.args.interval,
                        call.args.repetitions) <= 0
         \/ call.args.days_ahead <= 0))
    => call.result.status = "InvalidInputError"

\* C11: for a valid state and days_ahead >= 1, predict_retention returns
\* exactly days_ahead points, and the day fields are 1, 2, ..., days_ahead in
\* that order.
C11_OnePointPerDay ==
    (Forecasted /\ ValidForecast)
    => /\ call.result.status = "ok"
       /\ Len(Curve) = call.args.days_ahead
       /\ \A i \in 1..Len(Curve) : Curve[i].day = i

C11_Witness ==
    /\ Forecasted /\ ValidForecast /\ call.result.status = "ok"
    /\ call.args.days_ahead = 3
    /\ Len(Curve) = 3
    /\ Curve[1].day = 1 /\ Curve[3].day = 3

Analyzed == call.op = "get_optimal_review_time"
History == call.args.user_performance_history
Times == call.result.value

\* C12: on an empty history get_optimal_review_time does not fail and returns
\* best_hour 10 and best_day_of_week 1 with both breakdowns empty.
C12_EmptyHistoryDefaults ==
    (Analyzed /\ empty(History))
    => /\ call.result.status = "ok"
       /\ Times.best_hour = 10
       /\ Times.best_day_of_week = 1
       /\ DOMAIN Times.performance_by_hour = {}
       /\ DOMAIN Times.performance_by_day = {}

\* a frame without rows and without the quality column
C12_Witness ==
    /\ Analyzed /\ empty(History)
    /\ "quality" \notin History.columns
    /\ call.result.status = "ok"
    /\ Times.best_hour = 10

ScenarioA ==
    /\ Graded
    /\ call.args.quality = 4 /\ call.args.repetitions = 2
    /\ call.args.ease_factor = 750 /\ call.args.interval = 10
    /\ Context = None

\* C13 as stated: quality 4, repetitions 2, ease 2.5, interval 10 and no
\* context return ease 2.54, interval 25 and repetitions 3.
C13_ScenarioA_Original ==
    ScenarioA
    => /\ call.result.ease_factor = 762
       /\ call.result.interval = 25
       /\ call.result.repetitions = 3

\* C13 amended: the same call returns the ease unchanged, 2.5 (a grade of 4
\* adds 0.1 - 1 * (0.08 + 0.02) = 0), with interval 25 and repetitions 3.
C13_ScenarioA ==
    ScenarioA
    => /\ call.result.ease_factor = 750
       /\ call.result.interval = 25
       /\ call.result.repetitions = 3

C13_Witness ==
    /\ ScenarioA
    /\ call.result.status = "ok"
    /\ call.result.ease_factor = call.args.ease_factor
    /\ call.result.repetitions = 3

\* C14: the confidence calculate_next_interval returns is computed from the
\* repetition count it returns: on a successful recall the bonus is
\* min(0.3, 0.05 * (repetitions + 1)), so quality 4 on prior repetitions 2
\* gives 0.71.
C14_ConfidenceOfReturnedState ==
    (Graded /\ IsValid(call.args) /\ call.args.quality >= 3)
    => LET bonus == Min(300, 50 * (call.args.repetitions + 1))
       IN  call.result.confidence = Min(1000, 140 * call.args.quality + bonus)

\* C17: for every history, empty or not, the result of
\* get_optimal_review_time carries best_hour, best_day_of_week,
\* performance_by_hour, performance_by_day and the recommendation sentence.
C17_FiveFields ==
    (Analyzed /\ (empty(History)
                  \/ {"completed_at", "quality"} \subseteq History.columns))
    => /\ call.result.status = "ok"
       /\ {"best_hour", "best_day_of_week", "performance_by_hour",
           "performance_by_day", "recommendation"} \subseteq DOMAIN Times

\* C19: without a context the returned ease is clamp(ease + d(quality), 1.3,
\* 3.0) with d = -0.80, -0.54, -0.32, -0.14, 0.00, +0.10 for quality 0..5; d
\* grows strictly with the quality, and only a grade of 5 raises the ease.
C19_BaseEaseUpdate ==
    (Graded /\ IsValid(call.args) /\ ~Truthy(Context))
    => LET d == <<-240, -162, -96, -42, 0, 30>>
           q == call.args.quality
           sum == call.args.ease_factor + d[q + 1]
           clamped == IF sum < 390 THEN 390 ELSE IF sum > 900 THEN 900 ELSE sum
       IN  /\ call.result.ease_factor = clamped
           /\ \A q2 \in 0..5 : q2 > q => sm2_delta(q2) > sm2_delta(q)
           /\ call.result.ease_factor > call.args.ease_factor => q = 5

\* a grade of 3 on ease 2.5 lowers it to 2.36
C19_Witness ==
    /\ Graded /\ IsValid(call.args) /\ Context = None
    /\ call.args.quality = 3 /\ call.args.ease_factor = 750
    /\ call.result.ease_factor = 708

\* C20: for quality >= 3 and prior repetitions >= 2, with no
\* session_count_today in the context, the returned interval is
\* round(interval * E), E being the ease the same call returns, and the
\* returned repetitions is repetitions + 1.  round() of the float product is
\* a nearest integer of interval * E, and the even one when the float
\* product is exactly a half.
C20_IntervalFromReturnedEase ==
    (Graded /\ IsValid(call.args) /\ call.args.quality >= 3
     /\ call.args.repetitions >= 2 /\ ~HasField("session_count_today"))
    => LET product == call.args.interval * call.result.ease_factor
           exact == ease_is_exact(call.args.quality, call.args.ease_factor,
                                  Context, call.env.now_hour)
           i == call.result.interval
       IN  /\ 2 * Abs(Ease * i - product) <= Ease
           /\ (2 * Abs(Ease * i - product) = Ease /\ exact) => i % 2 = 0
           /\ call.result.repetitions = call.args.repetitions + 1

\* the personalized ease, not the base one, multiplies the interval:
\* 10 * 2.5 would be 25
C20_Witness ==
    /\ Graded /\ IsValid(call.args) /\ call.args.quality = 4
    /\ call.args.repetitions = 2 /\ call.args.interval = 10
    /\ call.args.ease_factor = 750
    /\ HasField("avg_quality_improvement") /\ ~HasField("session_count_today")
    /\ ~HasField("best_performance_hour") /\ ~HasField("subject_difficulty_avg")
    /\ call.result.ease_factor = 795
    /\ call.result.interval = 26

Chained == Graded /\ prev.op = "card"

\* C15: starting from a valid scheduling state and feeding each result back
\* as the prior state of the next call, for every sequence of grades in 0..5
\* and of contexts, every state produced is valid: ease_factor in [1.3, 3.0],
\* interval >= 1, repetitions >= 0.
C15_ChainStaysValid ==
    Chained
    => /\ IsValid(call.args)
       /\ call.result.status = "ok"
       /\ call.result.ease_factor >= 390 /\ call.result.ease_factor <= 900
       /\ call.result.interval >= 1
       /\ call.result.repetitions >= 0

\* a fourth success in a row on a card that began new, sent while fatigued,
\* with the ease pushed down to its floor
C15_Witness ==
    /\ Chained
    /\ prev.new /\ ~prev.failed
    /\ call.args.repetitions = 3
    /\ HasField("session_count_today")
    /\ call.result.ease_factor = 390
    /\ call.result.interval > 1

\* C16: on a card that starts with repetitions 0, the returned repetitions is
\* the number of grades >= 3 received since the most recent grade < 3, or
\* since the start when there was none.
C16_RepetitionsCountStreak ==
    (Chained /\ prev.new)
    => call.result.repetitions = prev.streak

\* two successes after a failure
C16_Witness ==
    /\ Chained /\ prev.new
    /\ prev.failed /\ prev.streak = 2
    /\ call.result.repetitions = 2

\* what the call of thread t returns when it runs alone, with the same
\* arguments and the same readings of the clock
Alone(t) ==
    LET a == call[t].args
        env == call[t].env
    IN  IF call[t].op = "calculate_next_interval"
        THEN calculate_next_interval(
                 AdvancedSpacedRepetition, a.quality, a.repetitions,
                 a.ease_factor, a.interval, a.user_performance_data,
                 env.now_hour, env.now_built, env.lean)
        ELSE IF call[t].op = "predict_retention"
        THEN predict_retention(a.ease_factor, a.interval, a.repetitions,
                               a.days_ahead, FALSE)
        ELSE [status |-> "ok",
              value |-> calculate_confidence(a.quality, a.repetitions)]

\* C18: however calls of calculate_next_interval, predict_retention and
\* _calculate_confidence interleave on the shared instance, the instance
\* keeps base, min and max ease 2.5, 1.3, 3.0 and every call returns what it
\* returns when run alone with the same arguments and clock readings.
C18_ParallelCallsIndependent ==
    /\ sr_service = [base_ease_factor |-> 750, min_ease_factor |-> 390,
                     max_ease_factor |-> 900]
    /\ \A t \in Threads :
         call[t].pc = "returned" => call[t].result = Alone(t)

\* a grading call that read the hour, was overtaken by the clock and by a
\* second grading call in mid-flight, and returned
C18_Witness ==
    \E t, u \in Threads :
        /\ t # u
        /\ call[t].op = "calculate_next_interval" /\ call[t].pc = "returned"
        /\ call[t].env.now_hour # call[t].env.now_built % 24
        /\ call[u].op = "calculate_next_interval" /\ call[u].pc = "interval"
        /\ call[u].args # call[t].args

Personalized == call.op = "_apply_personalization"
Data == call.args.performance_data

\* the time-of-day term as C21 and C22 state it, in ease units:
\* -(d / 12) * 0.2 = -d / 60
StatedTimeTerm ==
    IF Has(Data, "best_performance_hour")
    THEN LET gap == Abs(call.env.now_hour - Data["best_performance_hour"])
         IN  -(5 * Min(gap, 24 - gap))
    ELSE 0

\* C21: with best_performance_hour b present and current hour c, the term is
\* -(d / 12) * 0.2 with d = min(|c - b|, 24 - |c - b|); d is in 0..12, the
\* term in [-0.2, 0], 0 exactly when c = b and -0.2 exactly when the hours
\* are 12 apart; an absent field contributes nothing.
C21_TimeOfDayTerm ==
    Personalized
    => LET c == call.env.now_hour
           term == time_adjustment(Data, c)
           alone == call.args.ease_factor = 750
                    /\ DOMAIN Data \subseteq {"best_performance_hour"}
       IN  /\ term = StatedTimeTerm
           /\ alone => call.result.value = 750 + StatedTimeTerm
           /\ IF Has(Data, "best_performance_hour")
              THEN LET b == Data["best_performance_hour"]
                       gap == Abs(c - b)
                       d == Min(gap, 24 - gap)
                   IN  /\ d \in 0..12
                       /\ term >= -60 /\ term <= 0
                       /\ term = 0 <=> c = b
                       /\ term = -60 <=> gap = 12
              ELSE term = 0

\* 23h against a best hour of 3h: four hours apart round midnight, 2.5 - 4/60
C21_Witness ==
    /\ Personalized
    /\ DOMAIN Data = {"best_performance_hour"}
    /\ Data["best_performance_hour"] = 3 /\ call.env.now_hour = 23
    /\ call.args.ease_factor = 750
    /\ call.result.value = 730

\* C22: each present field contributes on its own and the contributions are
\* summed before one final clamp: subject_difficulty_avg gives -0.1 above
\* 3.5, +0.1 below 2.5, else 0; avg_quality_improvement gives +0.15 above
\* 0.5, -0.15 below -0.2, else 0; an absent field gives 0.
C22_IndependentTermsOneClamp ==
    Personalized
    => LET difficulty ==
               IF Has(Data, "subject_difficulty_avg")
               THEN IF Data["subject_difficulty_avg"] > 350 THEN -30
                    ELSE IF Data["subject_difficulty_avg"] < 250 THEN 30
                    ELSE 0
               ELSE 0
           speed ==
               IF Has(Data, "avg_quality_improvement")
               THEN IF Data["avg_quality_improvement"] > 50 THEN 45
                    ELSE IF Data["avg_quality_improvement"] < -20 THEN -45
                    ELSE 0
               ELSE 0
           sum == call.args.ease_factor + StatedTimeTerm + difficulty + speed
       IN  call.result.value =
               IF sum < 390 THEN 390 ELSE IF sum > 900 THEN 900 ELSE sum

\* on ease 3.0, +0.1 and -0.15 give 2.95: clamping between the terms would
\* give 2.85
C22_Witness ==
    /\ Personalized
    /\ call.args.ease_factor = 900
    /\ DOMAIN Data = {"subject_difficulty_avg", "avg_quality_improvement"}
    /\ Data["subject_difficulty_avg"] = 200
    /\ Data["avg_quality_improvement"] = -30
    /\ call.result.value = 885

\* C23: the dampener acts on the computed interval exactly when the context
\* carries session_count_today, and returns max(1, round(interval * m)) with
\* m = 0.8 for session_count > 5, 0.9 for 4 or 5 and 1.0 for <= 3; interval
\* 20 with session_count 6 gives 16.
C23_FatigueDampener ==
    /\ call.op = "_apply_fatigue_adjustment"
       => LET i == call.args.interval
              n == call.args.session_count
              m == IF n > 5 THEN 8 ELSE IF n \in {4, 5} THEN 9 ELSE 10
              q == (i * m) \div 10
              r == (i * m) % 10
              rounded == IF r < 5 THEN q
                         ELSE IF r > 5 THEN q + 1
                         ELSE IF q % 2 = 0 THEN q ELSE q + 1
          IN  /\ call.result.value = IF rounded < 1 THEN 1 ELSE rounded
              /\ (n <= 3 /\ i >= 1) => call.result.value = i
              /\ (i = 20 /\ n = 6) => call.result.value = 16
    /\ Graded
       => LET a == call.args
              computed == sm2_interval(
                              a.quality, a.repetitions, a.interval,
                              call.result.ease_factor,
                              ease_is_exact(a.quality, a.ease_factor, Context,
                                            call.env.now_hour),
                              call.env.lean)
          IN  call.result.interval =
                  IF HasField("session_count_today")
                  THEN apply_fatigue_adjustment(
                           computed, Context[1]["session_count_today"])
                  ELSE computed

C23_Witness ==
    /\ call.op = "_apply_fatigue_adjustment"
    /\ call.args.interval = 20 /\ call.args.session_count = 6
    /\ call.result.value = 16

\* the records of the history handed over, read as the claims read them
Rows == History.rows
AtHour(h) == {i \in DOMAIN Rows : Rows[i]["completed_at"] % 24 = h}
OnDay(d) == {i \in DOMAIN Rows : (Rows[i]["completed_at"] \div 24) % 7 = d}
BusyHours == {h \in 0..23 : Cardinality(AtHour(h)) >= 2}
DaysSeen == {d \in 0..6 : OnDay(d) # {}}
\* the mean quality over the records I is at least the mean over J
MeanAtLeast(I, J) ==
    sum_quality(Rows, I) * Cardinality(J) >= sum_quality(Rows, J) * Cardinality(I)
WellFormed ==
    /\ Analyzed /\ ~empty(History)
    /\ {"completed_at", "quality"} \subseteq History.columns

\* C24: when some hour of day has two or more records, best_hour is the hour
\* of highest mean quality among the hours with at least two records, the
\* smallest such hour on a tie; hours with one record are neither chosen nor
\* listed in performance_by_hour.
C24_BestHour ==
    (WellFormed /\ BusyHours # {})
    => /\ call.result.status = "ok"
       /\ Times.best_hour \in BusyHours
       /\ \A h \in BusyHours :
            /\ MeanAtLeast(AtHour(Times.best_hour), AtHour(h))
            /\ MeanAtLeast(AtHour(h), AtHour(Times.best_hour))
               => Times.best_hour <= h
       /\ DOMAIN Times.performance_by_hour = BusyHours

\* 9h has two records and the lower mean; 14h has one record, a 5, and is
\* left out
C24_Witness ==
    /\ WellFormed
    /\ Cardinality(AtHour(9)) = 2 /\ Cardinality(AtHour(14)) = 1
    /\ \A i \in AtHour(9) : Rows[i]["quality"] = 3
    /\ \A i \in AtHour(14) : Rows[i]["quality"] = 5
    /\ Times.best_hour = 9
    /\ DOMAIN Times.performance_by_hour = {9}

\* C25: best_day_of_week is the day (0 = Monday) of highest mean quality over
\* all its records, with no minimum number of records, the smallest day on a
\* tie; every day with a record is listed in performance_by_day.
C25_BestDay ==
    WellFormed
    => /\ call.result.status = "ok"
       /\ Times.best_day_of_week \in DaysSeen
       /\ \A d \in DaysSeen :
            /\ MeanAtLeast(OnDay(Times.best_day_of_week), OnDay(d))
            /\ MeanAtLeast(OnDay(d), OnDay(Times.best_day_of_week))
               => Times.best_day_of_week <= d
       /\ DOMAIN Times.performance_by_day = DaysSeen

\* Tuesday wins on a single record against two on Monday
C25_Witness ==
    /\ WellFormed
    /\ Cardinality(OnDay(0)) = 2 /\ Cardinality(OnDay(1)) = 1
    /\ \A i \in OnDay(0) : Rows[i]["quality"] = 4
    /\ \A i \in OnDay(1) : Rows[i]["quality"] = 5
    /\ Times.best_day_of_week = 1
    /\ DOMAIN Times.performance_by_day = {0, 1}

\* C29: for a non-empty history best_hour is a key of performance_by_hour
\* whenever that mapping is non-empty; when no hour has two records the
\* mapping is empty and best_hour is the default 10, though no record was
\* made at 10h, while best_day_of_week still comes from the records.
C29_BestHourListedOrDefault ==
    WellFormed
    => /\ call.result.status = "ok"
       /\ DOMAIN Times.performance_by_hour # {}
          => Times.best_hour \in DOMAIN Times.performance_by_hour
       /\ BusyHours = {}
          => /\ DOMAIN Times.performance_by_hour = {}
             /\ Times.best_hour = 10
             /\ Times.best_day_of_week \in DaysSeen
             /\ Times.best_day_of_week \in DOMAIN Times.performance_by_day

\* two records at different hours of a Monday: no hour qualifies
C29_Witness ==
    /\ WellFormed
    /\ Len(Rows) = 2 /\ BusyHours = {} /\ AtHour(10) = {}
    /\ DaysSeen = {0}
    /\ Times.best_hour = 10
    /\ Times.best_day_of_week = 0

\* C26: next_review_date is the wall-clock time read when the result is built
\* plus the returned interval in days, the interval after the reset rule and
\* after the fatigue dampener.  (The clock of the model stands at that
\* reading while the result is held.)
C26_DueDateFromFinalInterval ==
    Graded
    => /\ call.result.status = "ok"
       /\ call.result.next_review_date = clock + 24 * call.result.interval

\* a dampened interval, 25 days cut to 20, built after the clock passed into
\* the next hour
C26_Witness ==
    /\ Graded /\ IsValid(call.args)
    /\ call.args.quality = 4 /\ call.args.repetitions = 2
    /\ call.args.ease_factor = 750 /\ call.args.interval = 10
    /\ Truthy(Context) /\ DOMAIN Context[1] = {"session_count_today"}
    /\ Context[1]["session_count_today"] = 6
    /\ call.result.interval = 20
    /\ call.env.now_hour # clock % 24
    /\ call.result.next_review_date = clock + 480

\* exp(-day / strength) of the forecast at hand, in units of 1e-9
Retention(day) ==
    exp_neg(3000 * day,
            strength_x3000(call.args.ease_factor, call.args.interval,
                           call.args.repetitions))

ScenarioC ==
    /\ call.args.ease_factor = 750 /\ call.args.interval = 10
    /\ call.args.repetitions = 3

\* C27 as stated: in every point review_recommended is true exactly when the
\* point's retention_probability is below 0.8; for ease 2.5, interval 10,
\* repetitions 3 the day-1 point has 0.970 and false.
C27_FlagBelowThreshold_Original ==
    (Forecasted /\ ValidForecast)
    => /\ call.result.status = "ok"
       /\ \A d \in DOMAIN Curve :
            Curve[d].review_recommended <=> Curve[d].retention_probability < 800
       /\ ScenarioC => (Curve[1].retention_probability = 970
                        /\ ~Curve[1].review_recommended)

\* C27 amended: review_recommended is true exactly when the unrounded
\* exp(-day / strength) is below 0.8; the returned retention_probability,
\* rounded to three decimals, is then at most 0.8 (it can be 0.8 itself) and
\* otherwise at least 0.8; the scenario holds.
C27_FlagBelowThreshold ==
    (Forecasted /\ ValidForecast)
    => /\ call.result.status = "ok"
       /\ \A d \in DOMAIN Curve :
            /\ Curve[d].review_recommended <=> Retention(d) < 800000000
            /\ Curve[d].review_recommended
               => Curve[d].retention_probability <= 800
            /\ ~Curve[d].review_recommended
               => Curve[d].retention_probability >= 800
       /\ ScenarioC => (Curve[1].retention_probability = 970
                        /\ ~Curve[1].review_recommended)

\* ease 1.3, interval 31, no repetitions: on day 9 the retention is 0.79986,
\* returned as 0.8 and flagged
C27_Witness ==
    /\ Forecasted /\ ValidForecast /\ call.result.status = "ok"
    /\ call.args.ease_factor = 390 /\ call.args.interval = 31
    /\ call.args.repetitions = 0
    /\ Len(Curve) >= 9
    /\ Curve[9].retention_probability = 800
    /\ Curve[9].review_recommended
    /\ ~Curve[8].review_recommended

\* C28: a successful recall never shortens the schedule: for quality >= 3,
\* prior repetitions >= 2 and a valid prior state the returned interval is
\* at least the prior interval, for every context, the strongest fatigue
\* multiplier included.
C28_SuccessNeverShortens ==
    (Chained /\ IsValid(call.args) /\ call.args.quality >= 3
     /\ call.args.repetitions >= 2)
    => call.result.interval >= call.args.interval

\* the floor of the ease and the strongest dampening leave the interval as
\* it was: round(0.8 * round(1.3 * i)) = i
C28_Witness ==
    /\ Chained /\ call.args.quality >= 3 /\ call.args.repetitions >= 2
    /\ call.args.interval > 1
    /\ HasField("session_count_today") /\ Context[1]["session_count_today"] > 5
    /\ call.result.ease_factor = 390
    /\ call.result.interval = call.args.interval

\* C30: both roundings take an exact half to the even neighbour: a prior
\* interval of 5 with a resulting ease of 2.5 gives 12, and dampening 5 with
\* session_count 4 gives 4.
C30_HalfToEven ==
    /\ (Graded /\ IsValid(call.args) /\ call.args.quality >= 3
        /\ call.args.repetitions >= 2 /\ ~HasField("session_count_today")
        /\ ease_is_exact(call.args.quality, call.args.ease_factor, Context,
                         call.env.now_hour)
        /\ (2 * call.args.interval * call.result.ease_factor) % (2 * Ease) = Ease)
       => LET below == (call.args.interval * call.result.ease_factor) \div Ease
          IN  /\ call.result.interval = below + (below % 2)
              /\ (call.args.interval = 5 /\ call.result.ease_factor = 750)
                 => call.result.interval = 12
    /\ (call.op = "_apply_fatigue_adjustment" /\ call.args.interval >= 1
        /\ (call.args.interval * fatigue_factor(call.args.session_count)) % 10 = 5)
       => LET below == (call.args.interval
                        * fatigue_factor(call.args.session_count)) \div 10
          IN  /\ call.result.value = Max(1, below + (below % 2))
              /\ (call.args.interval = 5 /\ call.args.session_count = 4)
                 => call.result.value = 4

C30_Witness ==
    /\ Graded /\ IsValid(call.args)
    /\ call.args.quality = 4 /\ call.args.repetitions = 2
    /\ call.args.ease_factor = 750 /\ call.args.interval = 5
    /\ Context = None
    /\ call.result.ease_factor = 750
    /\ call.result.interval = 12

====
